---- MODULE Spec2Model ----
(***************************************************************************)
(* validate-members.py: reconcile feeds.json against the ~ubuntumembers    *)
(* team on Launchpad.  One run of main() is modelled as a sequential       *)
(* process whose position is pc; Launchpad and the file system are the     *)
(* environment.                                                            *)
(***************************************************************************)
EXTENDS Naturals, Sequences, FiniteSets, TLC

\* ------------------------------------------------------------------ bounds
\* Longest feeds.json list explored.
MaxFeeds == 3
\* Longest --check argument list explored.
MaxCheck == 2

\* ------------------------------------------------------- the data universe
\* Nick spellings that occur in feeds.json ("" is an absent or empty nick),
\* listed in the order Python's sorted() gives them (code-point order:
\* upper case before lower case).
NickOrder == <<"", "Bob", "UWN", "alice", "bob", "carol">>

Nicks == {NickOrder[i] : i \in 1..Len(NickOrder)}

\* Nicks given on the command line with --check.
CheckNicks == {"UWN", "Bob", "alice"}

\* Launchpad account names (always lower case) that can be team participants.
MemberPool == {"alice", "bob", "uwn"}

\* str.lower() on the nick spellings above.
Lower(nick) ==
    CASE nick = "Bob" -> "bob"
      [] nick = "UWN" -> "uwn"
      [] OTHER -> nick

LpNames == {Lower(n) : n \in Nicks \ {""}}

ALLOWED_NICKS == {"uwn"}

FEEDS_FILE == "feeds.json"

PR_BODY_FILE == "pr-body.md"

\* What launchpad.people[nick] can do: return a person, raise KeyError,
\* raise anything else.
Responses == {"found", "KeyError", "Exception"}

VARIABLES
    pc,               \* position in main()
    run,              \* 1 for the first invocation, 2 for a re-invocation
    args_check,       \* args.check: sequence of nicks, <<>> when not given
    args_dry_run,     \* args.dry_run
    stable,           \* environment: Launchpad answers a name the same way every time
    lp_members,       \* environment: participants of ~ubuntumembers
    answer,           \* history: what launchpad.people[...] did on the call made for a nick
    lookups,          \* history: number of check_user_exists calls per Launchpad name
    files,            \* the file system: FEEDS_FILE and PR_BODY_FILE contents
    files0,           \* history: the file system when the run started
    feeds,            \* main: feeds
    ubuntu_members,   \* validate_memberships / main: ubuntu_members
    todo,             \* validate_memberships: rest of sorted(nicks_to_check); main: rest of args.check
    non_member_nicks, \* validate_memberships: non_member_nicks
    not_found_nicks,  \* validate_memberships: not_found_nicks
    error_nicks,      \* validate_memberships: error_nicks
    valid_feeds,      \* validate_memberships: valid_feeds
    removed_entries,  \* validate_memberships: removed_entries
    results,          \* return values of check_single_nick, in call order
    output,           \* values emitted as has_changes by set_github_output
    exit,             \* process exit status: "none" while running, "0", "1"
    failure           \* the call whose exception ended the run, "none" otherwise

vars == <<pc, run, args_check, args_dry_run, stable, lp_members, answer, lookups,
          files, files0, feeds, ubuntu_members, todo, non_member_nicks,
          not_found_nicks, error_nicks, valid_feeds, removed_entries, results,
          output, exit, failure>>

env == <<args_check, args_dry_run, stable, lp_members, run>>

\* ---------------------------------------------------------------- JSON file
\* A file is a sequence of tokens; a JSON list of objects is "[" obj* "]".
Tok(t) == [tok |-> t]

Obj(feed) == [tok |-> "obj", val |-> feed]

\* json.dump(feeds, f, indent=2, ensure_ascii=False): the tokens written.
JsonDump(fs) == <<Tok("[")>> \o [i \in 1..Len(fs) |-> Obj(fs[i])] \o <<Tok("]")>>

\* Trailing whitespace json.load accepts after the value.
AllNewlines(text, from) == \A i \in from..Len(text) : text[i] = Tok("\n")

\* Number of objects that follow the opening bracket.
ObjPrefixLen(text) ==
    CHOOSE n \in 0..(Len(text) - 1) :
        /\ \A i \in 2..(n + 1) : text[i].tok = "obj"
        /\ (n + 2 <= Len(text) => text[n + 2].tok # "obj")

\* json.load(f) succeeds exactly on "[" obj* "]" newline*.
JsonValid(text) ==
    /\ Len(text) >= 2
    /\ text[1] = Tok("[")
    /\ LET n == ObjPrefixLen(text)
       IN /\ Len(text) >= n + 2
          /\ text[n + 2] = Tok("]")
          /\ AllNewlines(text, n + 3)

\* json.load(f): the list read.
JsonLoad(text) == [i \in 1..ObjPrefixLen(text) |-> text[i + 1].val]

\* ------------------------------------------------------------ pure helpers
\* get_unique_nicks(feeds)
get_unique_nicks(fs) ==
    {fs[i].nick : i \in {j \in 1..Len(fs) :
        /\ fs[j].nick # ""
        /\ Lower(fs[j].nick) \notin {Lower(a) : a \in ALLOWED_NICKS}}}

\* sorted(nicks_to_check)
sorted(S) == SelectSeq(NickOrder, LAMBDA n : n \in S)

\* check_user_exists(launchpad, nick): exists as True / False / None.
check_user_exists(resp) ==
    CASE resp = "found" -> "True"
      [] resp = "KeyError" -> "False"
      [] OTHER -> "None"

\* The responses launchpad.people[lp_nick] can give on this call.
Answers(lp_nick) ==
    LET asked == {n \in Nicks : Lower(n) = lp_nick /\ answer[n] # "unasked"}
    IN IF stable /\ asked # {} THEN {answer[n] : n \in asked} ELSE Responses

\* Bug variant: nicks whose lookup raised are treated as invalid too.
InvalidNicksWithErrors(non_member, not_found, errors) == non_member \cup not_found \cup errors

\* invalid_nicks = non_member_nicks | not_found_nicks
InvalidNicks(non_member, not_found, errors) == non_member \cup not_found

\* Bug variant: the two reasons are swapped.
ReasonSwapped(nick, not_found) == IF nick \in not_found THEN "not_member" ELSE "not_found"

\* "not_found" if nick in not_found_nicks else "not_member"
Reason(nick, not_found) == IF nick \in not_found THEN "not_found" ELSE "not_member"

\* Bug variant: the loaded list is returned unfiltered.
ValidFeedsUnfiltered(fs, invalid) == fs

\* The filter loop of validate_memberships: the feeds kept.
ValidFeeds(fs, invalid) == SelectSeq(fs, LAMBDA f : f.nick \notin invalid)

\* The filter loop of validate_memberships: the entries removed, each {**feed, "reason": ...}.
RemovedEntries(fs, invalid, not_found) ==
    LET rem == SelectSeq(fs, LAMBDA f : f.nick \in invalid)
    IN [i \in 1..Len(rem) |->
          [name |-> rem[i].name, nick |-> rem[i].nick, url |-> rem[i].url,
           reason |-> Reason(rem[i].nick, not_found)]]

\* generate_pr_body(removed_entries, not_found_nicks): the lines joined by "\n".
generate_pr_body(removed) ==
    <<"## Feeds Removed", "", "| Name | Nick | Reason | Feed URL |",
      "|------|------|--------|----------|">>
    \o [i \in 1..Len(removed) |->
          "| " \o removed[i].name \o " | " \o removed[i].nick \o " | "
          \o (IF removed[i].reason = "not_found" THEN "User not found" ELSE "Not a member")
          \o " | " \o removed[i].url \o " |"]
    \o <<"", "---", "Validated against ~ubuntumembers on <now>">>

\* Bug variant: the dry-run path reports changes.
DryRunSignalTrue == "true"

\* The has_changes value main() emits on the dry-run path.
DryRunSignal == "false"

\* ------------------------------------------------------------------- Init
\* The i-th record of a feeds.json whose nicks are ns.
Feed(i, n) == [name |-> "feed" \o ToString(i), nick |-> n, url |-> "http://" \o ToString(i)]

FeedLists ==
    UNION {{[i \in 1..k |-> Feed(i, ns[i])] : ns \in [1..k -> Nicks]} : k \in 0..MaxFeeds}

CheckLists == UNION {[1..k -> CheckNicks] : k \in 1..MaxCheck}

NoFile == [exists |-> FALSE, text |-> <<>>]

FileOf(text) == [exists |-> TRUE, text |-> text]

InitLocals ==
    /\ pc = "connect"
    /\ answer = [n \in Nicks |-> "unasked"]
    /\ lookups = [n \in LpNames |-> 0]
    /\ feeds = <<>>
    /\ ubuntu_members = {}
    /\ todo = <<>>
    /\ non_member_nicks = {}
    /\ not_found_nicks = {}
    /\ error_nicks = {}
    /\ valid_feeds = <<>>
    /\ removed_entries = <<>>
    /\ results = <<>>
    /\ output = <<>>
    /\ exit = "none"
    /\ failure = "none"

InitEnv ==
    /\ run = 1
    /\ lp_members \in SUBSET MemberPool
    /\ args_dry_run \in BOOLEAN
    /\ \/ /\ args_check = <<>>
          /\ \E fs \in FeedLists :
                files = (FEEDS_FILE :> FileOf(JsonDump(fs) \o <<Tok("\n")>>)
                         @@ PR_BODY_FILE :> NoFile)
       \/ /\ args_check \in CheckLists
          /\ files = (FEEDS_FILE :> FileOf(JsonDump(<<>>) \o <<Tok("\n")>>)
                      @@ PR_BODY_FILE :> NoFile)
    /\ files0 = files

Init == InitLocals /\ InitEnv /\ stable = FALSE

\* ---------------------------------------------------------------- actions
\* An unhandled exception: traceback, non-zero exit status.
Abort(call) ==
    /\ pc' = "aborted"
    /\ exit' = "1"
    /\ failure' = call

\* return 0 from main(): sys.exit(0).
Return0 ==
    /\ pc' = "done"
    /\ exit' = "0"
    /\ UNCHANGED failure

\* Bug variant: the value is emitted twice.
set_github_output_twice(value) == output' = output \o <<value, value>>

\* set_github_output("has_changes", value)
set_github_output(value) == output' = Append(output, value)

\* main: Launchpad.login_anonymously(...) succeeds.
Connect ==
    /\ pc = "connect"
    /\ pc' = IF args_check # <<>> THEN "fetch" ELSE "load"
    /\ UNCHANGED <<env, answer, lookups, files, files0, feeds, ubuntu_members, todo,
                   non_member_nicks, not_found_nicks, error_nicks, valid_feeds,
                   removed_entries, results, output, exit, failure>>

\* main: Launchpad.login_anonymously(...) raises.
ConnectFails ==
    /\ pc = "connect"
    /\ Abort("login_anonymously")
    /\ UNCHANGED <<env, answer, lookups, files, files0, feeds, ubuntu_members, todo,
                   non_member_nicks, not_found_nicks, error_nicks, valid_feeds,
                   removed_entries, results, output>>

\* main: feeds = load_feeds()
LoadFeeds ==
    /\ pc = "load"
    /\ files[FEEDS_FILE].exists
    /\ JsonValid(files[FEEDS_FILE].text)
    /\ feeds' = JsonLoad(files[FEEDS_FILE].text)
    /\ pc' = "fetch"
    /\ UNCHANGED <<env, answer, lookups, files, files0, ubuntu_members, todo,
                   non_member_nicks, not_found_nicks, error_nicks, valid_feeds,
                   removed_entries, results, output, exit, failure>>

\* load_feeds raises: open() fails (I/O error) or json.load rejects the text.
LoadFeedsFails ==
    /\ pc = "load"
    /\ Abort("load_feeds")
    /\ UNCHANGED <<env, answer, lookups, files, files0, feeds, ubuntu_members, todo,
                   non_member_nicks, not_found_nicks, error_nicks, valid_feeds,
                   removed_entries, results, output>>

\* get_ubuntu_members(launchpad, verbose), called from main (--check) or
\* from validate_memberships after nicks_to_check = get_unique_nicks(feeds).
GetUbuntuMembers ==
    /\ pc = "fetch"
    /\ ubuntu_members' = lp_members
    /\ IF args_check # <<>>
         THEN /\ todo' = args_check
              /\ pc' = "check"
         ELSE /\ todo' = sorted(get_unique_nicks(feeds))
              /\ pc' = "classify"
    /\ UNCHANGED <<env, answer, lookups, files, files0, feeds,
                   non_member_nicks, not_found_nicks, error_nicks, valid_feeds,
                   removed_entries, results, output, exit, failure>>

\* get_ubuntu_members raises (launchpad.people[...] or team.participants).
GetUbuntuMembersFails ==
    /\ pc = "fetch"
    /\ Abort("get_ubuntu_members")
    /\ UNCHANGED <<env, answer, lookups, files, files0, feeds, ubuntu_members, todo,
                   non_member_nicks, not_found_nicks, error_nicks, valid_feeds,
                   removed_entries, results, output>>

\* The call check_user_exists(launchpad, lp_nick) made for nick, answered resp.
Lookup(nick, lp_nick, resp) ==
    /\ answer' = [answer EXCEPT ![nick] = resp]
    /\ lookups' = [lookups EXCEPT ![lp_nick] = @ + 1]

\* check_single_nick(launchpad, nick, ubuntu_members, verbose): one iteration
\* of "for nick in args.check".
CheckSingleNick ==
    /\ pc = "check"
    /\ todo # <<>>
    /\ LET nick == Head(todo)
           lp_nick == Lower(nick)
       IN IF lp_nick \in ubuntu_members
            THEN /\ results' = Append(results, "member")
                 /\ UNCHANGED <<answer, lookups>>
            ELSE \E resp \in Answers(lp_nick) :
                    /\ Lookup(nick, lp_nick, resp)
                    /\ LET exists == check_user_exists(resp)
                       IN results' = Append(results,
                            CASE exists = "None" -> "error"
                              [] exists = "False" -> "not_found"
                              [] OTHER -> "not_member")
    /\ todo' = Tail(todo)
    /\ UNCHANGED <<pc, env, files, files0, feeds, ubuntu_members,
                   non_member_nicks, not_found_nicks, error_nicks, valid_feeds,
                   removed_entries, output, exit, failure>>

\* main: the --check loop is over; return 0.
CheckReturn ==
    /\ pc = "check"
    /\ todo = <<>>
    /\ Return0
    /\ UNCHANGED <<env, answer, lookups, files, files0, feeds, ubuntu_members, todo,
                   non_member_nicks, not_found_nicks, error_nicks, valid_feeds,
                   removed_entries, results, output>>

\* validate_memberships: one iteration of "for nick in sorted(nicks_to_check)".
ClassifyNick ==
    /\ pc = "classify"
    /\ todo # <<>>
    /\ LET nick == Head(todo)
           lp_nick == Lower(nick)
       IN IF lp_nick \in ubuntu_members
            THEN UNCHANGED <<answer, lookups, non_member_nicks, not_found_nicks, error_nicks>>
            ELSE \E resp \in Answers(lp_nick) :
                    /\ Lookup(nick, lp_nick, resp)
                    /\ LET exists == check_user_exists(resp)
                       IN CASE exists = "None" ->
                                 /\ error_nicks' = error_nicks \cup {nick}
                                 /\ UNCHANGED <<non_member_nicks, not_found_nicks>>
                            [] exists = "True" ->
                                 /\ non_member_nicks' = non_member_nicks \cup {nick}
                                 /\ UNCHANGED <<not_found_nicks, error_nicks>>
                            [] OTHER ->
                                 /\ not_found_nicks' = not_found_nicks \cup {nick}
                                 /\ UNCHANGED <<non_member_nicks, error_nicks>>
    /\ todo' = Tail(todo)
    /\ UNCHANGED <<pc, env, files, files0, feeds, ubuntu_members, valid_feeds,
                   removed_entries, results, output, exit, failure>>

\* validate_memberships: the filter loop and the return to main.
FilterFeeds ==
    /\ pc = "classify"
    /\ todo = <<>>
    /\ LET invalid_nicks == InvalidNicks(non_member_nicks, not_found_nicks, error_nicks)
       IN /\ valid_feeds' = ValidFeeds(feeds, invalid_nicks)
          /\ removed_entries' = RemovedEntries(feeds, invalid_nicks, not_found_nicks)
    /\ pc' = "summary"
    /\ UNCHANGED <<env, answer, lookups, files, files0, feeds, ubuntu_members, todo,
                   non_member_nicks, not_found_nicks, error_nicks, results, output, exit, failure>>

\* main: "if not removed_entries": has_changes=false, return 0.
NoChanges ==
    /\ pc = "summary"
    /\ removed_entries = <<>>
    /\ set_github_output("false")
    /\ Return0
    /\ UNCHANGED <<env, answer, lookups, files, files0, feeds, ubuntu_members, todo,
                   non_member_nicks, not_found_nicks, error_nicks, valid_feeds,
                   removed_entries, results>>

\* main: "if args.dry_run": emit the dry-run signal, return 0.
DryRun ==
    /\ pc = "summary"
    /\ removed_entries # <<>>
    /\ args_dry_run
    /\ set_github_output(DryRunSignal)
    /\ Return0
    /\ UNCHANGED <<env, answer, lookups, files, files0, feeds, ubuntu_members, todo,
                   non_member_nicks, not_found_nicks, error_nicks, valid_feeds,
                   removed_entries, results>>

\* save_feeds: open(FEEDS_FILE, "w") succeeds and truncates the file.
SaveOpen ==
    /\ pc = "summary"
    /\ removed_entries # <<>>
    /\ ~args_dry_run
    /\ files' = [files EXCEPT ![FEEDS_FILE] = FileOf(<<>>)]
    /\ pc' = "save_dump"
    /\ UNCHANGED <<env, answer, lookups, files0, feeds, ubuntu_members, todo,
                   non_member_nicks, not_found_nicks, error_nicks, valid_feeds,
                   removed_entries, results, output, exit, failure>>

\* save_feeds: open(FEEDS_FILE, "w") raises; nothing is touched.
SaveOpenFails ==
    /\ pc = "summary"
    /\ removed_entries # <<>>
    /\ ~args_dry_run
    /\ Abort("save_feeds.open")
    /\ UNCHANGED <<env, answer, lookups, files, files0, feeds, ubuntu_members, todo,
                   non_member_nicks, not_found_nicks, error_nicks, valid_feeds,
                   removed_entries, results, output>>

\* save_feeds: json.dump(feeds, f, ...) writes the whole list.
SaveDump ==
    /\ pc = "save_dump"
    /\ files' = [files EXCEPT ![FEEDS_FILE] = FileOf(JsonDump(valid_feeds))]
    /\ pc' = "save_newline"
    /\ UNCHANGED <<env, answer, lookups, files0, feeds, ubuntu_members, todo,
                   non_member_nicks, not_found_nicks, error_nicks, valid_feeds,
                   removed_entries, results, output, exit, failure>>

\* save_feeds: a write inside json.dump raises; what was written so far stays.
SaveDumpFails ==
    /\ pc = "save_dump"
    /\ \E k \in 0..(Len(JsonDump(valid_feeds)) - 1) :
          files' = [files EXCEPT ![FEEDS_FILE] = FileOf(SubSeq(JsonDump(valid_feeds), 1, k))]
    /\ Abort("save_feeds.dump")
    /\ UNCHANGED <<env, answer, lookups, files0, feeds, ubuntu_members, todo,
                   non_member_nicks, not_found_nicks, error_nicks, valid_feeds,
                   removed_entries, results, output>>

\* save_feeds: f.write("\n"); back in main.
SaveNewline ==
    /\ pc = "save_newline"
    /\ files' = [files EXCEPT ![FEEDS_FILE] = FileOf(@.text \o <<Tok("\n")>>)]
    /\ pc' = "report"
    /\ UNCHANGED <<env, answer, lookups, files0, feeds, ubuntu_members, todo,
                   non_member_nicks, not_found_nicks, error_nicks, valid_feeds,
                   removed_entries, results, output, exit, failure>>

\* save_feeds: f.write("\n") raises.
SaveNewlineFails ==
    /\ pc = "save_newline"
    /\ Abort("save_feeds.write")
    /\ UNCHANGED <<env, answer, lookups, files, files0, feeds, ubuntu_members, todo,
                   non_member_nicks, not_found_nicks, error_nicks, valid_feeds,
                   removed_entries, results, output>>

\* main: pr_body = generate_pr_body(...); open(PR_BODY_FILE, "w"); f.write(pr_body).
WriteReport ==
    /\ pc = "report"
    /\ files' = [files EXCEPT ![PR_BODY_FILE] = FileOf(generate_pr_body(removed_entries))]
    /\ pc' = "emit"
    /\ UNCHANGED <<env, answer, lookups, files0, feeds, ubuntu_members, todo,
                   non_member_nicks, not_found_nicks, error_nicks, valid_feeds,
                   removed_entries, results, output, exit, failure>>

\* main: open(PR_BODY_FILE, "w") raises (file untouched), or f.write raises
\* after the open truncated it.
WriteReportFails ==
    /\ pc = "report"
    /\ \/ UNCHANGED files
       \/ files' = [files EXCEPT ![PR_BODY_FILE] = FileOf(<<>>)]
    /\ Abort("write_pr_body")
    /\ UNCHANGED <<env, answer, lookups, files0, feeds, ubuntu_members, todo,
                   non_member_nicks, not_found_nicks, error_nicks, valid_feeds,
                   removed_entries, results, output>>

\* main: set_github_output("has_changes", "true"); return 0.
EmitChanges ==
    /\ pc = "emit"
    /\ set_github_output("true")
    /\ Return0
    /\ UNCHANGED <<env, answer, lookups, files, files0, feeds, ubuntu_members, todo,
                   non_member_nicks, not_found_nicks, error_nicks, valid_feeds,
                   removed_entries, results>>

\* The script is invoked again (sys.exit(main()) of a new process) in normal
\* mode on the files the first run left, against the same Launchpad.
Rerun ==
    /\ pc = "done"
    /\ run = 1
    /\ args_check = <<>>
    /\ ~args_dry_run
    /\ run' = 2
    /\ files0' = files
    /\ pc' = "connect"
    /\ feeds' = <<>>
    /\ ubuntu_members' = {}
    /\ todo' = <<>>
    /\ non_member_nicks' = {}
    /\ not_found_nicks' = {}
    /\ error_nicks' = {}
    /\ valid_feeds' = <<>>
    /\ removed_entries' = <<>>
    /\ results' = <<>>
    /\ output' = <<>>
    /\ exit' = "none"
    /\ UNCHANGED failure
    /\ UNCHANGED <<args_check, args_dry_run, stable, lp_members, answer, lookups, files>>

Next ==
    \/ Connect \/ ConnectFails
    \/ LoadFeeds \/ LoadFeedsFails
    \/ GetUbuntuMembers \/ GetUbuntuMembersFails
    \/ CheckSingleNick \/ CheckReturn
    \/ ClassifyNick \/ FilterFeeds
    \/ NoChanges \/ DryRun
    \/ SaveOpen \/ SaveOpenFails
    \/ SaveDump \/ SaveDumpFails
    \/ SaveNewline \/ SaveNewlineFails
    \/ WriteReport \/ WriteReportFails
    \/ EmitChanges

Spec == Init /\ [][Next]_vars

\* Two invocations in a row against a Launchpad that answers every name the
\* same way each time it is asked.
InitRerun == InitLocals /\ InitEnv /\ stable = TRUE

NextRerun == Next \/ Rerun

SpecRerun == InitRerun /\ [][NextRerun]_vars

\* ------------------------------------------------------------- properties
\* validate_memberships has returned in this run.
Partitioned ==
    /\ args_check = <<>>
    /\ \/ pc \in {"summary", "save_dump", "save_newline", "report", "emit", "done"}
       \/ /\ pc = "aborted"
          /\ failure \in {"save_feeds.open", "save_feeds.dump", "save_feeds.write",
                          "write_pr_body"}

\* A removed entry without its added reason field.
Strip(e) == [name |-> e.name, nick |-> e.nick, url |-> e.url]

Kept(f) == \E i \in 1..Len(valid_feeds) : valid_feeds[i] = f

Removed(f) == \E i \in 1..Len(removed_entries) : Strip(removed_entries[i]) = f

RemovedAs(f, reason) ==
    \E i \in 1..Len(removed_entries) :
        Strip(removed_entries[i]) = f /\ removed_entries[i].reason = reason

AllowListed(nick) == Lower(nick) \in {Lower(a) : a \in ALLOWED_NICKS}

\* The classification outcome the design assigns to the nick of a record,
\* read off the environment: the membership set and what Launchpad did on
\* the lookup made for that nick.
Outcome(nick) ==
    IF nick = "" \/ AllowListed(nick) \/ Lower(nick) \in lp_members
      THEN "member"
      ELSE CASE answer[nick] = "found" -> "not_member"
             [] answer[nick] = "KeyError" -> "not_found"
             [] OTHER -> "error"

\* C1: a record whose nick is not in the membership set and whose lookup
\* raised an error other than not-found is in valid_feeds and not in
\* removed_entries, whatever happened to the other nicks.
C1_NoRemovalOnLookupError ==
    Partitioned =>
        \A i \in 1..Len(feeds) :
            (/\ feeds[i].nick \in get_unique_nicks(feeds)
             /\ Lower(feeds[i].nick) \notin lp_members
             /\ answer[feeds[i].nick] = "Exception")
            => (Kept(feeds[i]) /\ ~Removed(feeds[i]))

\* C1 witness: a record whose lookup raised is kept while a record spelling
\* the same Launchpad name differently is removed.
C1_Witness ==
    /\ Partitioned
    /\ pc = "done"
    /\ \E i, j \in 1..Len(feeds) :
          /\ answer[feeds[i].nick] = "Exception"
          /\ Lower(feeds[i].nick) \notin lp_members
          /\ Kept(feeds[i])
          /\ Lower(feeds[j].nick) = Lower(feeds[i].nick)
          /\ Removed(feeds[j])

\* C2: a record is removed iff the outcome of its nick is not_found or
\* not_member, and then carries that outcome as its reason; every other
\* record (member, error, allow-listed) is kept.
C2_PartitionRule ==
    Partitioned =>
        /\ Len(valid_feeds) + Len(removed_entries) = Len(feeds)
        /\ \A i \in 1..Len(feeds) :
              LET f == feeds[i]
                  o == Outcome(f.nick)
              IN IF o \in {"not_found", "not_member"}
                   THEN RemovedAs(f, o) /\ ~Kept(f)
                        /\ \A r \in {"not_found", "not_member"} \ {o} : ~RemovedAs(f, r)
                   ELSE Kept(f) /\ ~Removed(f)

\* C2 witness: alice (in the set), bob (exists), carol (not found) give
\* kept = [alice], removed = [bob(not_member), carol(not_found)].
C2_Witness ==
    /\ Partitioned
    /\ Len(feeds) = 3
    /\ feeds[1].nick = "alice" /\ feeds[2].nick = "bob" /\ feeds[3].nick = "carol"
    /\ lp_members = {"alice"}
    /\ answer["bob"] = "found" /\ answer["carol"] = "KeyError"
    /\ valid_feeds = <<feeds[1]>>
    /\ Len(removed_entries) = 2
    /\ RemovedAs(feeds[2], "not_member") /\ removed_entries[1].nick = "bob"
    /\ RemovedAs(feeds[3], "not_found") /\ removed_entries[2].nick = "carol"

\* A dry run that found something to remove has returned.
DryRunWithRemovals ==
    /\ Partitioned
    /\ pc = "done"
    /\ args_dry_run
    /\ removed_entries # <<>>

\* C3 as stated: a dry run with a removable record leaves the files as they
\* were and emits has_changes=true.
C3_DryRunEmitsTrue ==
    DryRunWithRemovals => (files = files0 /\ output = <<"true">>)

\* C3 amended: a dry run with a removable record leaves the files as they
\* were and emits has_changes=false.
C3_DryRunEmitsFalse ==
    DryRunWithRemovals => (files = files0 /\ output = <<"false">>)

\* C3 witness: a finished dry run with a non-empty removed list.
C3_Witness == DryRunWithRemovals /\ Len(removed_entries) >= 2

AllMembers == \A i \in 1..Len(feeds) : Outcome(feeds[i].nick) = "member"

\* C4: in dry-run mode or with nothing removable, neither file is written,
\* has_changes is emitted exactly once, at the return with status 0, and
\* its value is false when every record is a member.
C4_NoMutationSignalOnce ==
    (Partitioned /\ (args_dry_run \/ removed_entries = <<>>)) =>
        /\ files = files0
        /\ pc \in {"summary", "done"}
        /\ pc = "summary" => (output = <<>> /\ exit = "none")
        /\ pc = "done" => (Len(output) = 1 /\ exit = "0")
        /\ (pc = "done" /\ AllMembers) => output = <<"false">>

\* C4 witness: a finished run over a non-empty list of members only.
C4_Witness ==
    /\ Partitioned
    /\ pc = "done"
    /\ ~args_dry_run
    /\ Len(feeds) >= 2
    /\ AllMembers
    /\ \E i \in 1..Len(feeds) : Lower(feeds[i].nick) \in lp_members
    /\ output = <<"false">>

\* C5: records whose nicks have the same case-folded form get the same
\* disposition: both kept, or both removed with the same reason, also when
\* Launchpad answers differently on separate calls.
C5_SameOutcomePerIdentifier ==
    Partitioned =>
        \A i, j \in 1..Len(feeds) :
            Lower(feeds[i].nick) = Lower(feeds[j].nick) =>
                \/ Kept(feeds[i]) /\ Kept(feeds[j])
                \/ \E r \in {"not_found", "not_member"} :
                      RemovedAs(feeds[i], r) /\ RemovedAs(feeds[j], r)

\* C6: an allow-listed identifier is never looked up and always classified
\* member, in validate_memberships and in check_single_nick alike.
C6_AllowListNeverLookedUp ==
    /\ \A a \in ALLOWED_NICKS : lookups[Lower(a)] = 0
    /\ \A i \in 1..Len(results) : AllowListed(args_check[i]) => results[i] = "member"

\* C7: a write error inside save_feeds leaves feeds.json with its complete
\* original content.
C7_SaveAtomic ==
    (pc = "aborted" /\ failure \in {"save_feeds.open", "save_feeds.dump", "save_feeds.write"})
        => files[FEEDS_FILE] = files0[FEEDS_FILE]

\* C8: a run ends either with both files as they were, or with feeds.json
\* replaced by the surviving list, the report written and has_changes=true
\* emitted.
C8_AllOrNothing ==
    pc \in {"done", "aborted"} =>
        \/ files = files0
        \/ /\ files[FEEDS_FILE] = FileOf(JsonDump(valid_feeds) \o <<Tok("\n")>>)
           /\ files[PR_BODY_FILE] = FileOf(generate_pr_body(removed_entries))
           /\ output = <<"true">>

\* C9: in one run of validate_memberships check_user_exists is called at
\* most once per distinct lower-cased nick, and never for a member.
C9_LookupOncePerIdentifier ==
    args_check = <<>> =>
        \A id \in LpNames :
            /\ lookups[id] <= 1
            /\ id \in lp_members => lookups[id] = 0

Count(r, s) == Cardinality({i \in 1..Len(s) : s[i] = r})

\* s is t with some elements left out, order kept.
RECURSIVE SubseqFrom(_, _, _, _)
SubseqFrom(s, t, i, j) ==
    IF i > Len(s) THEN TRUE
    ELSE IF j > Len(t) THEN FALSE
    ELSE IF s[i] = t[j] THEN SubseqFrom(s, t, i + 1, j + 1)
    ELSE SubseqFrom(s, t, i, j + 1)

IsSubseq(s, t) == SubseqFrom(s, t, 1, 1)

StrippedRemoved == [i \in 1..Len(removed_entries) |-> Strip(removed_entries[i])]

\* C10: the kept and removed lists together hold every loaded record exactly
\* once, in the original order with the original fields; and a second run on
\* the file the first left, against the same Launchpad answers, removes
\* nothing, emits has_changes=false and writes nothing.
C10_FixedPointNoLoss ==
    /\ Partitioned =>
          /\ Len(valid_feeds) + Len(removed_entries) = Len(feeds)
          /\ IsSubseq(valid_feeds, feeds)
          /\ IsSubseq(StrippedRemoved, feeds)
          /\ \A i \in 1..Len(feeds) :
                Count(feeds[i], valid_feeds) + Count(feeds[i], StrippedRemoved)
                    = Count(feeds[i], feeds)
    /\ (run = 2 /\ Partitioned) => feeds = JsonLoad(files0[FEEDS_FILE].text)
    /\ run = 2 =>
          /\ removed_entries = <<>>
          /\ non_member_nicks = {} /\ not_found_nicks = {}
          /\ files = files0
          /\ pc = "done" => output = <<"false">>
          /\ pc \notin {"save_dump", "save_newline", "report", "emit"}

\* C10 witness: the first run removed a record and kept one whose lookup
\* raised, and the second run over the written file has finished.
C10_Witness ==
    /\ run = 2
    /\ pc = "done"
    /\ Len(feeds) >= 2
    /\ Len(JsonLoad(files0[FEEDS_FILE].text)) = Len(feeds)
    /\ files0[PR_BODY_FILE].exists
    /\ \E i \in 1..Len(feeds) : answer[feeds[i].nick] = "Exception"
    /\ output = <<"false">>
====
